---- MODULE Spec2Model ----
(* A model of the crate no_order (src/src/lib.rs): the transparent wrapper     *)
(* NoOrder<T> whose PartialEq, PartialOrd, Ord and Hash implementations are    *)
(* constant, and whose Clone and Default delegate to T.  The wrapper is        *)
(* exercised the way its documentation exercises it: compared and hashed       *)
(* directly, stored in a hash set (alone and as the second component of a      *)
(* tuple), stored in a binary max-heap next to an integer key, and cloned.     *)
EXTENDS Integers, Sequences, FiniteSets, Bags, TLC

(* ---------------------------------------------------------------- bounds -- *)
\* Inner values of the wrapped type range over 0..MaxVal.
MaxVal == 2
\* First components (keys) of tuples range over 1..MaxKey.
MaxKey == 3
\* Longest sequence of writes a hasher has absorbed before a wrapper is hashed.
MaxWrites == 1
\* Number of buckets of the hash table behind a hash set.
NumBuckets == 2
\* Largest number of entries pushed on the heap.
MaxHeap == 4
\* First components of heap entries range over 1..MaxPrio; the values wrapped
\* in the elements of sets and heaps range over 0..MaxPayload.
MaxPrio == 2
MaxPayload == 1
\* Number of wrapper variables alive in the cloning scenario, and the largest
\* content an inner value is given there.
NumSlots == 2
MaxContent == 1

Inner == 0..MaxVal
Keys == 1..MaxKey
Prios == 1..MaxPrio
Payloads == 0..MaxPayload
Contents == 0..MaxContent
Operands == {1, 2, 3}
Slots == 1..NumSlots
\* A new value is allocated before the value it replaces is dropped, so one
\* address more than there are wrapper variables can be live.
Addrs == 1..(NumSlots + 1)

VARIABLES
    \* direct use: three wrappers, a hasher, and the result of the last call
    w, hasher, res,
    \* HashSet<NoOrder<i32>> and HashSet<(i32, NoOrder<i32>)> as bucket tables,
    \* with the element last inserted in each and the keys ever inserted
    set, set_tuple, set_last, tuple_last, keys_inserted,
    \* BinaryHeap<(i32, NoOrder<_>)>: its vector, the entries pushed and popped,
    \* and the same heap fed the same keys with every payload erased
    heap, pushed, popped, shadow, shadow_popped, phase,
    \* cloning: the wrapped type, the wrapper variables, the memory their inner
    \* values live in, the last operation, and the latest clone() whose original
    \* and clone are both still the variables' values, as <<original, clone>>
    T, slots, store, last, origin

relVars == <<w, hasher, res>>
setVars == <<set, set_tuple, set_last, tuple_last, keys_inserted>>
heapVars == <<heap, pushed, popped, shadow, shadow_popped, phase>>
cloneVars == <<T, slots, store, last, origin>>
vars == <<relVars, setVars, heapVars, cloneVars>>

(* ------------------------------------------------------- the wrapper type -- *)
\* pub struct NoOrder<T>(pub T): a tuple struct with the single field .0
NoOrder(x) == <<x>>
Field0(self) == self[1]
Wrappers == {NoOrder(x) : x \in Inner}

\* std::cmp::Ordering and Option<Ordering>
Less == "Less"
Equal == "Equal"
Greater == "Greater"
None == <<>>
Some(x) == <<x>>

\* Ord for the integers used as inner values and keys
int_cmp(x, y) == IF x < y THEN Less ELSE IF x > y THEN Greater ELSE Equal

\* eq as it would be if it delegated to the inner value's equality.
eq_delegating(self, other) == Field0(self) = Field0(other)
\* impl<T> PartialEq for NoOrder<T>: fn eq(&self, _: &Self) -> bool { true }
eq(self, other) == TRUE

\* partial_cmp as it would be if it delegated to the inner value's order.
partial_cmp_delegating(self, other) == Some(int_cmp(Field0(self), Field0(other)))
\* impl<T> PartialOrd for NoOrder<T>: fn partial_cmp(..) { Some(Ordering::Equal) }
partial_cmp(self, other) == Some(Equal)

\* cmp as it would be if it delegated to the inner value's order.
cmp_delegating(self, other) == int_cmp(Field0(self), Field0(other))
\* impl<T> Ord for NoOrder<T>: fn cmp(..) { Ordering::Equal }
cmp(self, other) == Equal

\* The operators <, >, <=, >= are PartialOrd's provided methods, all defined
\* from partial_cmp (the impl at lib.rs:52-56 overrides none of them).
lt(self, other) == partial_cmp(self, other) = Some(Less)
gt(self, other) == partial_cmp(self, other) = Some(Greater)
le(self, other) == partial_cmp(self, other) \in {Some(Less), Some(Equal)}
ge(self, other) == partial_cmp(self, other) \in {Some(Greater), Some(Equal)}

(* ---------------------------------------------------------------- hashing -- *)
\* A hasher is modelled by the sequence of values written into it: every
\* Hasher's state is a function of that sequence.
write_int(state, x) == Append(state, x)

\* hash as it would be if it fed the inner value to the hasher.
hash_delegating(self, state) == write_int(state, Field0(self))
\* impl<T> Hash for NoOrder<T>: fn hash<H: Hasher>(&self, _: &mut H) {}
\* The result is the hasher's state after the call.
hash(self, state) == state

\* Hasher::finish reduced to a bucket index of the table.
RECURSIVE finish(_)
finish(state) ==
    IF state = <<>> THEN 0
    ELSE (31 * finish(SubSeq(state, 1, Len(state) - 1)) + state[Len(state)] + 1) % NumBuckets

(* ------------------------------------------------------------ direct use -- *)
NoCall == [op |-> "none", i |-> 1, j |-> 1, out |-> "none", before |-> <<>>]

\* NoOrder(x): construction from any value, into one of the three operands
Construct(i, x) ==
    /\ w' = [w EXCEPT ![i] = NoOrder(x)]
    /\ res' = NoCall
    /\ UNCHANGED <<hasher, setVars, heapVars, cloneVars>>

\* w[i] == w[j]
CallEq(i, j) ==
    /\ res' = [op |-> "eq", i |-> i, j |-> j, out |-> eq(w[i], w[j]), before |-> hasher]
    /\ UNCHANGED <<w, hasher, setVars, heapVars, cloneVars>>

\* w[i].cmp(&w[j])
CallCmp(i, j) ==
    /\ res' = [op |-> "cmp", i |-> i, j |-> j, out |-> cmp(w[i], w[j]), before |-> hasher]
    /\ UNCHANGED <<w, hasher, setVars, heapVars, cloneVars>>

\* w[i].partial_cmp(&w[j])
CallPartialCmp(i, j) ==
    /\ res' = [op |-> "partial_cmp", i |-> i, j |-> j,
               out |-> partial_cmp(w[i], w[j]), before |-> hasher]
    /\ UNCHANGED <<w, hasher, setVars, heapVars, cloneVars>>

\* w[i] < w[j]
CallLt(i, j) ==
    /\ res' = [op |-> "lt", i |-> i, j |-> j, out |-> lt(w[i], w[j]), before |-> hasher]
    /\ UNCHANGED <<w, hasher, setVars, heapVars, cloneVars>>

\* w[i] > w[j]
CallGt(i, j) ==
    /\ res' = [op |-> "gt", i |-> i, j |-> j, out |-> gt(w[i], w[j]), before |-> hasher]
    /\ UNCHANGED <<w, hasher, setVars, heapVars, cloneVars>>

\* Something else is hashed first (the key of a tuple, say), so that the
\* wrapper meets a hasher in an arbitrary state.
HasherWrite(x) ==
    /\ Len(hasher) < MaxWrites
    /\ hasher' = write_int(hasher, x)
    /\ res' = NoCall
    /\ UNCHANGED <<w, setVars, heapVars, cloneVars>>

\* w[i].hash(&mut hasher); out is hasher.finish() right after the call
CallHash(i) ==
    /\ hasher' = hash(w[i], hasher)
    /\ res' = [op |-> "hash", i |-> i, j |-> i, out |-> finish(hasher'), before |-> hasher]
    /\ UNCHANGED <<w, setVars, heapVars, cloneVars>>

RelNext ==
    \/ \E i \in Operands, x \in Inner : Construct(i, x)
    \/ \E i, j \in Operands : CallEq(i, j)
    \/ \E i, j \in Operands : CallCmp(i, j)
    \/ \E i, j \in Operands : CallPartialCmp(i, j)
    \/ \E i, j \in Operands : CallLt(i, j)
    \/ \E i, j \in Operands : CallGt(i, j)
    \/ \E x \in Inner : HasherWrite(x)
    \/ \E i \in Operands : CallHash(i)

(* ------------------------------------------------------------- hash sets -- *)
\* Hash and PartialEq of the integer keys
int_hash(x, state) == write_int(state, x)
int_eq(x, y) == x = y

\* Hash and PartialEq of a tuple (k, NoOrder(v)): component by component
tuple_hash(t, state) == hash(t[2], int_hash(t[1], state))
tuple_eq(t, u) == int_eq(t[1], u[1]) /\ eq(t[2], u[2])
Tuples == {<<k, NoOrder(v)>> : k \in Keys, v \in Payloads}

\* A hash set is a table of buckets; an element lives in the bucket its hash
\* selects.  HashSet::new()
Buckets == 0..(NumBuckets - 1)
EmptyTable == [b \in Buckets |-> <<>>]

\* HashSet::len
RECURSIVE SumLen(_, _)
SumLen(table, bs) ==
    IF bs = {} THEN 0
    ELSE LET b == CHOOSE x \in bs : TRUE IN Len(table[b]) + SumLen(table, bs \ {b})
len(table) == SumLen(table, DOMAIN table)

\* The elements of a table, as a set
Elements(table) == UNION {{table[b][n] : n \in 1..Len(table[b])} : b \in DOMAIN table}

\* HashSet<NoOrder<_>>::insert(value): hash the value with a fresh hasher, look
\* in its bucket for an element equal to it, and add it only when there is none.
set_insert(table, value) ==
    LET b == finish(hash(value, <<>>))
        found == \E n \in 1..Len(table[b]) : eq(value, table[b][n])
    IN IF found THEN table ELSE [table EXCEPT ![b] = Append(@, value)]

\* HashSet<(i32, NoOrder<_>)>::insert(value)
set_tuple_insert(table, value) ==
    LET b == finish(tuple_hash(value, <<>>))
        found == \E n \in 1..Len(table[b]) : tuple_eq(value, table[b][n])
    IN IF found THEN table ELSE [table EXCEPT ![b] = Append(@, value)]

\* set.insert(NoOrder(x))
Insert(x) ==
    /\ set' = set_insert(set, NoOrder(x))
    /\ set_last' = Some(NoOrder(x))
    /\ UNCHANGED <<set_tuple, tuple_last, keys_inserted, relVars, heapVars, cloneVars>>

\* set_tuple.insert((k, NoOrder(x)))
InsertTuple(k, x) ==
    /\ set_tuple' = set_tuple_insert(set_tuple, <<k, NoOrder(x)>>)
    /\ tuple_last' = Some(<<k, NoOrder(x)>>)
    /\ keys_inserted' = keys_inserted \cup {k}
    /\ UNCHANGED <<set, set_last, relVars, heapVars, cloneVars>>

SetNext ==
    \/ \E x \in Payloads : Insert(x)
    \/ \E k \in Keys, x \in Payloads : InsertTuple(k, x)

(* ----------------------------------------------------------- binary heap -- *)
\* A heap entry is the tuple (k, NoOrder(v)); its third component is the index
\* of the push that added it, which no comparison reads.
Entry(k, v, id) == <<k, NoOrder(v), id>>
Erased(e) == <<e[1], NoOrder(0), e[3]>>

\* PartialOrd of a tuple (k, NoOrder(v)): lexicographic, the first component
\* that is not equal decides; <= is defined from it.
int_partial_cmp(x, y) == Some(int_cmp(x, y))
tuple_partial_cmp(t, u) ==
    LET c == int_partial_cmp(t[1], u[1])
    IN IF c = Some(Equal) THEN partial_cmp(t[2], u[2]) ELSE c
tuple_le(t, u) == tuple_partial_cmp(t, u) \in {Some(Less), Some(Equal)}

\* The heap's vector, indexed from 0 as in the library
At(data, pos) == data[pos + 1]
Put(data, pos, e) == [data EXCEPT ![pos + 1] = e]

\* BinaryHeap::sift_up(start, pos): the element at pos moves up while it is
\* greater than its parent.
RECURSIVE sift_up_hole(_, _, _, _)
sift_up_hole(data, elt, start, pos) ==
    IF pos > start
    THEN LET parent == (pos - 1) \div 2
         IN IF tuple_le(elt, At(data, parent))
            THEN Put(data, pos, elt)
            ELSE sift_up_hole(Put(data, pos, At(data, parent)), elt, start, parent)
    ELSE Put(data, pos, elt)
sift_up(data, start, pos) == sift_up_hole(data, At(data, pos), start, pos)

\* BinaryHeap::sift_down_to_bottom(pos): the element at pos moves down to a
\* leaf along the greater children, then sifts up from there.
RECURSIVE sift_down_hole(_, _, _, _)
sift_down_hole(data, elt, start, pos) ==
    LET end == Len(data)
        child == 2 * pos + 1
        limit == IF end >= 2 THEN end - 2 ELSE 0
    IN IF child <= limit
       THEN LET c == IF tuple_le(At(data, child), At(data, child + 1))
                     THEN child + 1 ELSE child
            IN sift_down_hole(Put(data, pos, At(data, c)), elt, start, c)
       ELSE IF child = end - 1
            THEN sift_up(Put(Put(data, pos, At(data, child)), child, elt), start, child)
            ELSE sift_up(Put(data, pos, elt), start, pos)
sift_down_to_bottom(data, pos) == sift_down_hole(data, At(data, pos), pos, pos)

\* BinaryHeap::push(item)
push(data, item) == sift_up(Append(data, item), 0, Len(data))

\* BinaryHeap::pop(): the vector after the call (the caller checks that the
\* heap is not empty) and the entry returned
pop_data(data) ==
    LET item == data[Len(data)]
        rest == SubSeq(data, 1, Len(data) - 1)
    IN IF rest = <<>> THEN rest ELSE sift_down_to_bottom(Put(rest, 0, item), 0)
pop_item(data) == IF Len(data) = 1 THEN data[Len(data)] ELSE At(data, 0)

\* heap.push((k, NoOrder(v)))
Push(k, v) ==
    /\ phase = "push"
    /\ Len(pushed) < MaxHeap
    /\ LET e == Entry(k, v, Len(pushed) + 1)
       IN /\ heap' = push(heap, e)
          /\ shadow' = push(shadow, Erased(e))
          /\ pushed' = Append(pushed, e)
    /\ UNCHANGED <<popped, shadow_popped, phase, relVars, setVars, cloneVars>>

\* while let Some((a, NoOrder(b))) = heap.pop(): one iteration
Pop ==
    /\ phase \in {"push", "pop"}
    /\ heap # <<>>
    /\ heap' = pop_data(heap)
    /\ popped' = Append(popped, pop_item(heap))
    /\ shadow' = pop_data(shadow)
    /\ shadow_popped' = Append(shadow_popped, pop_item(shadow))
    /\ phase' = "pop"
    /\ UNCHANGED <<pushed, relVars, setVars, cloneVars>>

\* heap.pop() returns None: the loop ends
PopNone ==
    /\ phase \in {"push", "pop"}
    /\ heap = <<>>
    /\ phase' = "done"
    /\ UNCHANGED <<heap, shadow, pushed, popped, shadow_popped, relVars, setVars, cloneVars>>

HeapNext ==
    \/ \E k \in Prios, v \in Payloads : Push(k, v)
    \/ Pop
    \/ PopNone

(* ---------------------------------------------------- cloning and default -- *)
\* The wrapped type T is Box<Cell<i32>> ("Box": clone allocates a copy,
\* clone_from overwrites the target's allocation) or Rc<Cell<i32>> ("Rc": clone
\* shares the allocation, clone_from is the provided *self = source.clone()).
\* An inner value is the address of its allocation; store maps the live
\* addresses to their contents.
Kinds == {"Box", "Rc"}
Absent == <<>>

\* The allocator hands out the lowest free address.
fresh(st) == CHOOSE a \in Addrs \ DOMAIN st : \A b \in Addrs \ DOMAIN st : a <= b

\* Dropping: an allocation no wrapper variable refers to is freed.
Live(sl) == {Field0(sl[i]) : i \in {n \in DOMAIN sl : sl[n] # Absent}}
drop_unused(sl, st) == [a \in (DOMAIN st) \cap Live(sl) |-> st[a]]

\* T::new(v), T::default(), T::clone(&x), T::clone_from(&mut x, &src): the
\* resulting value and memory
T_new(v, st) == [val |-> fresh(st), st |-> (fresh(st) :> v) @@ st]
T_default(st) == T_new(0, st)
T_clone(x, st) ==
    IF T = "Box" THEN [val |-> fresh(st), st |-> (fresh(st) :> st[x]) @@ st]
    ELSE [val |-> x, st |-> st]
T_clone_from(x, src, st) ==
    IF T = "Box" THEN [val |-> x, st |-> [st EXCEPT ![x] = st[src]]]
    ELSE [val |-> src, st |-> st]

\* derive(Default) as it would be if it wrapped some other value.
default_other(st) == [val |-> NoOrder(T_new(MaxContent, st).val), st |-> T_new(MaxContent, st).st]
\* #[derive(Default)]: NoOrder(T::default())
default(st) == [val |-> NoOrder(T_default(st).val), st |-> T_default(st).st]

\* clone as it would be if it copied the wrapper without cloning the inner value.
clone_shallow(self, st) == [val |-> self, st |-> st]
\* fn clone(&self) -> Self { Self(self.0.clone()) }
clone(self, st) ==
    [val |-> NoOrder(T_clone(Field0(self), st).val), st |-> T_clone(Field0(self), st).st]

\* clone_from as it would be if it left the target as it was.
clone_from_nothing(self, source, st) == [val |-> self, st |-> st]
\* fn clone_from(&mut self, source: &Self) { self.0.clone_from(&source.0) }
clone_from(self, source, st) ==
    [val |-> NoOrder(T_clone_from(Field0(self), Field0(source), st).val),
     st |-> T_clone_from(Field0(self), Field0(source), st).st]

\* The inner value's content, as its owner reads it through .0
Content(sl, st, i) == st[Field0(sl[i])]

\* What a variable held before an operation overwrote it (-1: nothing)
Old(i) == IF slots[i] = Absent THEN -1 ELSE Content(slots, store, i)

NoOp == [op |-> "none", src |-> 0, dst |-> 0, old |-> -1]
NoClone == <<0, 0>>
Forget(i) == IF i \in {origin[1], origin[2]} THEN NoClone ELSE origin

\* let s_i = NoOrder(T::new(v));
New(i, v) ==
    /\ slots' = [slots EXCEPT ![i] = NoOrder(T_new(v, store).val)]
    /\ store' = drop_unused(slots', T_new(v, store).st)
    /\ last' = [op |-> "new", src |-> 0, dst |-> i, old |-> Old(i)]
    /\ origin' = Forget(i)
    /\ UNCHANGED <<T, relVars, setVars, heapVars>>

\* let s_i = NoOrder::<T>::default();
Default(i) ==
    /\ slots' = [slots EXCEPT ![i] = default(store).val]
    /\ store' = drop_unused(slots', default(store).st)
    /\ last' = [op |-> "default", src |-> 0, dst |-> i, old |-> Old(i)]
    /\ origin' = Forget(i)
    /\ UNCHANGED <<T, relVars, setVars, heapVars>>

\* s_j = s_i.clone();
Clone(i, j) ==
    /\ i # j
    /\ slots[i] # Absent
    /\ slots' = [slots EXCEPT ![j] = clone(slots[i], store).val]
    /\ store' = drop_unused(slots', clone(slots[i], store).st)
    /\ last' = [op |-> "clone", src |-> i, dst |-> j, old |-> Old(j)]
    /\ origin' = <<i, j>>
    /\ UNCHANGED <<T, relVars, setVars, heapVars>>

\* s_j.clone_from(&s_i);  (the borrow rules make s_i and s_j different variables)
CloneFrom(j, i) ==
    /\ i # j
    /\ slots[i] # Absent
    /\ slots[j] # Absent
    /\ slots' = [slots EXCEPT ![j] = clone_from(slots[j], slots[i], store).val]
    /\ store' = drop_unused(slots', clone_from(slots[j], slots[i], store).st)
    /\ last' = [op |-> "clone_from", src |-> i, dst |-> j, old |-> Old(j)]
    /\ origin' = Forget(j)
    /\ UNCHANGED <<T, relVars, setVars, heapVars>>

\* s_i.0.set(v): the owner writes the inner value through the public field
Write(i, v) ==
    /\ slots[i] # Absent
    /\ store' = [store EXCEPT ![Field0(slots[i])] = v]
    /\ last' = [op |-> "write", src |-> 0, dst |-> i, old |-> Old(i)]
    /\ UNCHANGED <<T, slots, origin, relVars, setVars, heapVars>>

CloneNext ==
    \/ \E i \in Slots, v \in Contents : New(i, v)
    \/ \E i \in Slots : Default(i)
    \/ \E i, j \in Slots : Clone(i, j)
    \/ \E i, j \in Slots : CloneFrom(j, i)
    \/ \E i \in Slots, v \in Contents : Write(i, v)

(* --------------------------------------------------------- specifications -- *)
\* Every scenario starts from freshly constructed values: three wrappers
\* NoOrder(0), a new hasher, two empty sets, an empty heap, no wrapper variable
\* initialised.  A scenario's actions leave the other scenarios' state alone.
Init ==
    /\ w = [i \in Operands |-> NoOrder(0)]
    /\ hasher = <<>>
    /\ res = NoCall
    /\ set = EmptyTable
    /\ set_tuple = EmptyTable
    /\ set_last = None
    /\ tuple_last = None
    /\ keys_inserted = {}
    /\ heap = <<>>
    /\ shadow = <<>>
    /\ pushed = <<>>
    /\ popped = <<>>
    /\ shadow_popped = <<>>
    /\ phase = "push"
    /\ T = "Box"
    /\ slots = [i \in Slots |-> Absent]
    /\ store = <<>>
    /\ last = NoOp
    /\ origin = NoClone

\* The cloning scenario runs for either wrapped type.
CloneInit ==
    /\ w = [i \in Operands |-> NoOrder(0)]
    /\ hasher = <<>>
    /\ res = NoCall
    /\ set = EmptyTable
    /\ set_tuple = EmptyTable
    /\ set_last = None
    /\ tuple_last = None
    /\ keys_inserted = {}
    /\ heap = <<>>
    /\ shadow = <<>>
    /\ pushed = <<>>
    /\ popped = <<>>
    /\ shadow_popped = <<>>
    /\ phase = "push"
    /\ T \in Kinds
    /\ slots = [i \in Slots |-> Absent]
    /\ store = <<>>
    /\ last = NoOp
    /\ origin = NoClone

\* The wrappers compared and hashed directly
SpecRel == Init /\ [][RelNext]_vars
\* The wrappers as elements of hash sets
SpecSet == Init /\ [][SetNext]_vars
\* The wrappers as payloads of a binary heap
SpecHeap == Init /\ [][HeapNext]_vars
\* The wrappers cloned, overwritten and default-constructed
SpecClone == CloneInit /\ [][CloneNext]_vars

(* ----------------------------------------------------------------- claims -- *)
\* C1: NoOrder(x) == NoOrder(y) is true for every pair of inner values x and
\* y, equal or not: eq returns true whatever the two wrappers hold, and every
\* call of == that was made returned true.
EqAlwaysTrue ==
    /\ \A x, y \in Wrappers : eq(x, y) = TRUE
    /\ res.op = "eq" => res.out = TRUE
\* == was called on two wrappers holding different inner values.
EqCalledOnDistinct ==
    /\ res.op = "eq"
    /\ Field0(w[res.i]) # Field0(w[res.j])
    /\ res.out = TRUE

\* C2: for every pair of inner values cmp yields Equal and partial_cmp yields
\* Some(Equal), never Less, Greater or None, so < and > are always false.
CmpAlwaysEqual ==
    /\ \A x, y \in Wrappers :
          /\ cmp(x, y) = Equal
          /\ partial_cmp(x, y) = Some(Equal)
          /\ ~lt(x, y)
          /\ ~gt(x, y)
    /\ res.op = "cmp" => res.out = Equal
    /\ res.op = "partial_cmp" => res.out = Some(Equal)
    /\ res.op \in {"lt", "gt"} => res.out = FALSE
\* partial_cmp was called on a wrapper holding less than the other holds.
PartialCmpCalledOnLess ==
    /\ res.op = "partial_cmp"
    /\ Field0(w[res.i]) < Field0(w[res.j])
    /\ res.out = Some(Equal)

\* C3: hashing a wrapper leaves the hasher's state as it was before the call,
\* whatever the inner value and whatever the hasher had absorbed; from the
\* same hasher state any two wrappers give the same state and the same output.
HashLeavesHasherAlone ==
    /\ res.op = "hash" => hasher = res.before /\ res.out = finish(res.before)
    /\ \A x, y \in Wrappers :
          /\ hash(x, hasher) = hasher
          /\ hash(x, hasher) = hash(y, hasher)
          /\ finish(hash(x, hasher)) = finish(hash(y, hasher))
\* A wrapper holding a non-zero value was hashed into a hasher that had
\* already absorbed something.
HashCalledOnUsedHasher ==
    /\ res.op = "hash"
    /\ res.before # <<>>
    /\ Field0(w[res.i]) # 0

\* C10: eq is reflexive, symmetric and transitive; cmp is a total order (cmp(a,
\* b) is the reverse of cmp(b, a), and transitive); partial_cmp(a, b) is
\* Some(cmp(a, b)); a == b exactly when cmp(a, b) is Equal; and a == b implies
\* that a and b hash alike from any hasher state.
Reverse(o) == IF o = Less THEN Greater ELSE IF o = Greater THEN Less ELSE Equal
RelationsLawful ==
    \A x, y, z \in Wrappers :
        /\ eq(x, x)
        /\ eq(x, y) => eq(y, x)
        /\ eq(x, y) /\ eq(y, z) => eq(x, z)
        /\ cmp(x, y) = Reverse(cmp(y, x))
        /\ \A o \in {Less, Greater} : cmp(x, y) = o /\ cmp(y, z) = o => cmp(x, z) = o
        /\ cmp(x, y) = Equal => cmp(x, z) = cmp(y, z)
        /\ partial_cmp(x, y) = Some(cmp(x, y))
        /\ eq(x, y) <=> cmp(x, y) = Equal
        /\ eq(x, y) => hash(x, hasher) = hash(y, hasher)
\* Three wrappers holding three different values exist, two of them were
\* compared, and the hasher is in use.
ThreeDistinctCompared ==
    /\ res.op = "cmp"
    /\ res.i # res.j
    /\ Cardinality({Field0(w[i]) : i \in Operands}) = 3
    /\ hasher # <<>>

\* C4: a hash set of wrappers holds exactly one element after any non-empty
\* sequence of insertions, whatever was inserted and in whatever order, and
\* never holds more than one.
SetHoldsOne ==
    /\ len(set) <= 1
    /\ set_last # None => len(set) = 1
\* A wrapper was inserted whose inner value differs from the one the set holds.
SetRefusedDistinct ==
    /\ set_last # None
    /\ len(set) = 1
    /\ set_last[1] \notin Elements(set)

\* C5: a hash set of tuples (k, NoOrder(v)) has as many elements as distinct
\* first components were inserted, one per first component; two tuples are
\* the same element (equal, and hashing alike) exactly when their first
\* components are equal, whatever their wrapped second components.
TupleSetCountsKeys ==
    /\ len(set_tuple) = Cardinality(keys_inserted)
    /\ {t[1] : t \in Elements(set_tuple)} = keys_inserted
    /\ \A t, u \in Tuples :
          /\ tuple_eq(t, u) <=> t[1] = u[1]
          /\ t[1] = u[1] => tuple_hash(t, <<>>) = tuple_hash(u, <<>>)
\* The set holds two tuples with different first components that share a
\* bucket, and the tuple last inserted had the first component of one of
\* them with another wrapped value.
TupleSetRefusedSameKey ==
    /\ tuple_last # None
    /\ \E t \in Elements(set_tuple) : t[1] = tuple_last[1][1] /\ t[2] # tuple_last[1][2]
    /\ \E b \in Buckets : Len(set_tuple[b]) >= 2

\* The pushes a sequence of entries came from, and the entries as a set
IdsOf(q) == [n \in 1..Len(q) |-> q[n][3]]
Range(q) == {q[n] : n \in 1..Len(q)}

\* C6: after any pushes followed by pops until the heap is empty, the entries
\* come out in non-increasing order of their first component; every entry
\* pushed is either still in the heap or was popped, exactly once and with its
\* payload as pushed; and which entry comes out when depends on the first
\* components alone: the heap fed the same first components with every
\* payload erased moves and pops the same pushes at the same times.
HeapPopsByKeyOnly ==
    /\ \A m, n \in 1..Len(popped) : m < n => popped[m][1] >= popped[n][1]
    /\ Range(heap) \cup Range(popped) = Range(pushed)
    /\ Len(heap) + Len(popped) = Len(pushed)
    /\ phase = "done" => heap = <<>> /\ Len(popped) = Len(pushed)
    /\ IdsOf(heap) = IdsOf(shadow)
    /\ IdsOf(popped) = IdsOf(shadow_popped)
\* The heap was filled and drained; among entries with the same first
\* component one pair came out in the order pushed and another in the
\* opposite order, and their payloads came out neither ascending nor
\* descending.
HeapDrainedUnordered ==
    /\ phase = "done"
    /\ Len(popped) = MaxHeap
    /\ \E m, n \in 1..Len(popped) :
          m < n /\ popped[m][1] = popped[n][1] /\ popped[m][3] > popped[n][3]
    /\ \E m, n \in 1..Len(popped) :
          m < n /\ popped[m][1] = popped[n][1] /\ popped[m][3] < popped[n][3]
    /\ \E m, n \in 1..Len(popped) :
          m < n /\ popped[m][1] = popped[n][1] /\ Field0(popped[m][2]) < Field0(popped[n][2])
    /\ \E m, n \in 1..Len(popped) :
          m < n /\ popped[m][1] = popped[n][1] /\ Field0(popped[m][2]) > Field0(popped[n][2])
    /\ \E m, n \in 1..Len(popped) : popped[m][1] > popped[n][1]

\* The variables other than n are left as they were by a step, with their contents
OthersKept(n) ==
    \A m \in Slots \ {n} :
        /\ slots'[m] = slots[m]
        /\ slots[m] # Absent => Content(slots', store', m) = Content(slots, store, m)

\* C7: clone returns a new wrapper whose inner value is T's clone of the
\* original's (the same content; a new allocation for Box, the shared one for
\* Rc) and leaves the original as it was; when T's clone shares nothing
\* (Box), no two wrappers share an allocation, and a write to one wrapper's
\* inner value, the clone's or the original's, changes no other wrapper's.
CloneCopiesAndSeparates ==
    /\ [](T = "Box" =>
            \A m, n \in Slots :
                (m # n /\ slots[m] # Absent /\ slots[n] # Absent) => slots[m] # slots[n])
    /\ [][(last'.op = "clone") =>
            (/\ OthersKept(last'.dst)
             /\ Content(slots', store', last'.dst) = Content(slots, store, last'.src)
             /\ (T = "Box") => (Field0(slots'[last'.dst]) \notin DOMAIN store)
             /\ (T = "Rc") => (slots'[last'.dst] = slots[last'.src]))]_vars
    /\ [][(last'.op = "write" /\ T = "Box") => OthersKept(last'.dst)]_vars
\* A Box wrapper was cloned, the clone was then written with another value,
\* and the original still holds the old one.
CloneWrittenOriginalKept ==
    /\ T = "Box"
    /\ last.op = "write"
    /\ origin[2] = last.dst
    /\ Content(slots, store, last.dst) # last.old
    /\ Content(slots, store, origin[1]) = last.old

\* C8: clone_from overwrites the target's inner value with T's clone of the
\* source's by T's own clone_from (Box: in the target's allocation; Rc: the
\* target joins the source's allocation); afterwards the target's inner value
\* equals the source's, and the source and every other wrapper are unchanged.
CloneFromOverwritesTarget ==
    [][(last'.op = "clone_from") =>
         (/\ OthersKept(last'.dst)
          /\ Content(slots', store', last'.dst) = Content(slots, store, last'.src)
          /\ Content(slots', store', last'.dst) = Content(slots', store', last'.src)
          /\ (T = "Box") => (slots'[last'.dst] = slots[last'.dst])
          /\ (T = "Rc") => (slots'[last'.dst] = slots[last'.src]))]_vars
\* clone_from has just overwritten a Box target that held another value
\* than the source.
CloneFromChangedTarget ==
    /\ T = "Box"
    /\ last.op = "clone_from"
    /\ last.old # Content(slots, store, last.dst)
    /\ Content(slots, store, last.dst) = Content(slots, store, last.src)

\* C9: NoOrder::<T>::default() is a wrapper around T::default(): whatever the
\* memory holds, default() yields the value and memory T::default() yields,
\* wrapped, and the variable just default-constructed holds T's default, 0.
DefaultWrapsTDefault ==
    /\ default(store).val = NoOrder(T_default(store).val)
    /\ default(store).st = T_default(store).st
    /\ last.op = "default" => Content(slots, store, last.dst) = 0
\* A variable that held a non-default value was just default-constructed
\* while another wrapper holds a non-default value.
DefaultReplacedValue ==
    /\ last.op = "default"
    /\ last.old > 0
    /\ \E n \in Slots \ {last.dst} : slots[n] # Absent /\ Content(slots, store, n) > 0

====
